---------------------------- MODULE Spec2Model ----------------------------
(***************************************************************************)
(* A model of train.py (triplet-loss metric learning driver):              *)
(*   - AverageMeter            (train.py 290-305)                          *)
(*   - LossAccuracy            (train.py 307-310)                          *)
(*   - main's epoch loop, Train, TestTriplets, SaveCheckpoint              *)
(*                             (train.py 155-288)                          *)
(*   - the hard-negative sampler hard_mining.NHardestTripletSampler, whose *)
(*     source is not part of train.py; its contract is taken from the      *)
(*     design document (section 4.1).                                      *)
(* Real-valued quantities (losses, accuracies, averages) are exact         *)
(* rationals [num, den] in lowest terms; distances and hardness values are *)
(* small naturals.                                                         *)
(***************************************************************************)
EXTENDS Integers, Sequences, FiniteSets

(* ------------------------------ bounds -------------------------------- *)
MaxEpochs == 4
MaxFreq == 3
MaxBatches == 2
MaxValBatches == 1
MaxAcc == 2
MaxValue == 2
MaxWeight == 2
MaxCalls == 3
MaxBatchLen == 3
MaxDist == 2
MaxBatchSize == 6
MaxClasses == 2
MaxHardness == 3
MaxReports == 3

(* ------------------------- program constants -------------------------- *)
\* hard_frac = 0.5, as the fraction HardFracNum / HardFracDen
HardFracNum == 1
HardFracDen == 2
\* margin = 0 inside LossAccuracy
Margin == 0
\* --log-interval default
LogInterval == 2
\* best_acc = 0 at module load
InitialBestAcc == 0

VARIABLES
  \* ---- AverageMeter: an instance's fields, as reset()/update() leave them
  val, avg, sum, count,
  \* the reset and update(value, weight) calls made since construction, and
  \* the outcome of a read of .avg made since the last of them
  calls, q,
  \* ---- LossAccuracy: the batch handed in and the value returned
  dista, distb, loss_acc,
  \* ---- sampler construction and the sampler's per-class collections
  batch_size, capacity, s_state, hardest, reported,
  \* ---- main: args, loop position, globals, files
  epochs, val_freq, triplet_freq, n_batches, n_val_batches,
  epoch, pc, batch_idx, best_acc, acc, is_best, checkpoint, model_best,
  \* the sampler object main owns, as the set of training batches whose
  \* reports it has accumulated; what regenerate_triplet_list read last
  sampler, regen_seen,
  \* history: steps of the current epoch, steps of the current batch, the
  \* epoch numbers passed to Train, accuracies TestTriplets returned, number
  \* of SampleNegatives calls, of torch.save calls, of finished validations
  \* and best_acc as it was before it was last reassigned
  epochLog, batchLog, trained, accs_seen, n_reports, n_saves, n_vals,
  prev_best

meterVars == <<val, avg, sum, count, calls, q>>
accVars == <<dista, distb, loss_acc>>
samplerVars == <<batch_size, capacity, s_state, hardest, reported>>
argVars == <<epochs, val_freq, triplet_freq, n_batches, n_val_batches>>
loopVars == <<epoch, pc, batch_idx>>
ckptVars == <<best_acc, acc, is_best, checkpoint, model_best>>
mainSamplerVars == <<sampler, regen_seen>>
histVars == <<epochLog, batchLog, trained, accs_seen, n_reports, n_saves, n_vals,
              prev_best>>
mainVars == <<argVars, loopVars, ckptVars, mainSamplerVars, histVars>>
vars == <<meterVars, accVars, samplerVars, mainVars>>

(* ----------------------------- rationals ------------------------------ *)
RECURSIVE GCD(_, _)
GCD(a, b) == IF b = 0 THEN a ELSE GCD(b, a % b)

\* true division a / b of a >= 0 by b > 0, in lowest terms
Div(a, b) == LET g == GCD(a, b) IN [num |-> a \div g, den |-> b \div g]

\* the number n as a rational
Rat(n) == [num |-> n, den |-> 1]

RatAdd(x, y) == Div(x.num * y.den + y.num * x.den, x.den * y.den)
RatDivInt(x, n) == Div(x.num, x.den * n)
RatMulInt(x, n) == Div(x.num * n, x.den)

\* int(x) for x >= 0: truncation
IntOf(x) == x.num \div x.den

\* round(x) for x >= 0, halves up
RoundOf(x) == (2 * x.num + x.den) \div (2 * x.den)

(* ---------------------------- AverageMeter ---------------------------- *)
NotRead == [status |-> "none", value |-> Rat(0), count |-> 0]

\* __init__ calls reset(): every field is 0
MeterInit ==
  /\ val = 0 /\ avg = Rat(0) /\ sum = 0 /\ count = 0
  /\ calls = <<>> /\ q = NotRead

resetKeepsSum ==
  /\ Len(calls) < MaxCalls
  /\ val' = 0 /\ avg' = Rat(0) /\ sum' = sum /\ count' = 0
  /\ calls' = Append(calls, <<"reset", 0, 0>>)
  /\ q' = NotRead

reset ==
  /\ Len(calls) < MaxCalls
  /\ val' = 0 /\ avg' = Rat(0) /\ sum' = 0 /\ count' = 0
  /\ calls' = Append(calls, <<"reset", 0, 0>>)
  /\ q' = NotRead

\* n is a batch's size (data1.size(0)) at every call site: n >= 1
update(v, n) ==
  /\ Len(calls) < MaxCalls
  /\ val' = v
  /\ sum' = sum + v * n
  /\ count' = count + n
  /\ avg' = Div(sum', count')
  /\ calls' = Append(calls, <<"update", v, n>>)
  /\ q' = NotRead

ReadAvgChecked ==
  /\ q' = IF count = 0
          THEN [status |-> "DivisionUndefined", value |-> Rat(0), count |-> count]
          ELSE [status |-> "value", value |-> avg, count |-> count]
  /\ UNCHANGED <<val, avg, sum, count, calls>>

\* a read of the attribute .avg (train.py 233-237, 276-278): it returns the
\* stored field, whatever count is
ReadAvg ==
  /\ q' = [status |-> "value", value |-> avg, count |-> count]
  /\ UNCHANGED <<val, avg, sum, count, calls>>

MeterReset == reset /\ UNCHANGED <<accVars, samplerVars, mainVars>>

MeterUpdate ==
  /\ \E v \in 0..MaxValue, n \in 1..MaxWeight : update(v, n)
  /\ UNCHANGED <<accVars, samplerVars, mainVars>>

MeterRead == ReadAvg /\ UNCHANGED <<accVars, samplerVars, mainVars>>

(* ---------------------------- LossAccuracy ---------------------------- *)
\* the number of positions of pred, from i on, that are > 0: (pred > 0).sum()
RECURSIVE CountPositive(_, _)
CountPositive(pred, i) ==
  IF i > Len(pred) THEN 0
  ELSE (IF pred[i] > 0 THEN 1 ELSE 0) + CountPositive(pred, i + 1)

LossAccuracyTiesCorrect(a, b) ==
  LET pred == [i \in 1..Len(a) |-> a[i] - b[i] - Margin]
      ge == [i \in 1..Len(a) |-> pred[i] + 1]
  IN Div(CountPositive(ge, 1), Len(a))

LossAccuracy(a, b) ==
  LET pred == [i \in 1..Len(a) |-> a[i] - b[i] - Margin]
  IN Div(CountPositive(pred, 1), Len(a))

Batches ==
  UNION {[1..n -> 0..MaxDist] : n \in 1..MaxBatchLen}

NoResult == [num |-> -1, den |-> 1]

\* a batch of paired distances, as the network returns it (train.py 197, 264)
AccInit ==
  /\ dista \in Batches /\ distb \in Batches
  /\ Len(dista) = Len(distb)
  /\ loss_acc = NoResult

AccIdle ==
  /\ dista = <<0>> /\ distb = <<0>> /\ loss_acc = NoResult

\* loss_acc = LossAccuracy(dista, distb) (train.py 213, 272)
AccEvaluate ==
  /\ loss_acc = NoResult
  /\ loss_acc' = LossAccuracy(dista, distb)
  /\ UNCHANGED <<dista, distb, meterVars, samplerVars, mainVars>>

(* ----------------- hard-negative sampler (construction) ---------------- *)
\* train_classes, with MaxClasses classes in place of range(8)
TrainClasses == 0..(MaxClasses - 1)

HardFrac == Div(HardFracNum, HardFracDen)

SamplerCapacityRounded(bs) ==
  RoundOf(RatMulInt(RatAdd(HardFrac, RatDivInt(HardFrac, 2)), bs))

\* int((hard_frac+hard_frac/2)*args.batch_size)
SamplerCapacity(bs) ==
  IntOf(RatMulInt(RatAdd(HardFrac, RatDivInt(HardFrac, 2)), bs))

\* Construct(num_classes, capacity_per_class) fails with ConfigurationError
\* if num_classes <= 0 or capacity_per_class <= 0
ConstructFails(nc, cap) == nc <= 0 \/ cap <= 0

EmptyCollections == [c \in TrainClasses |-> <<>>]

SamplerInit ==
  /\ batch_size \in 1..MaxBatchSize
  /\ capacity = 0
  /\ s_state = "new"
  /\ hardest = EmptyCollections
  /\ reported = EmptyCollections

SamplerIdle ==
  /\ batch_size = 1 /\ capacity = 0 /\ s_state = "new"
  /\ hardest = EmptyCollections /\ reported = EmptyCollections

\* sampler = OurSampler(len(train_classes), int(...))
Construct ==
  /\ s_state = "new"
  /\ capacity' = SamplerCapacity(batch_size)
  /\ s_state' = IF ConstructFails(Cardinality(TrainClasses), capacity')
                 THEN "ConfigurationError" ELSE "ready"
  /\ UNCHANGED <<batch_size, hardest, reported>>
  /\ UNCHANGED <<meterVars, accVars, mainVars>>

(* ------------------ hard-negative sampler (collections) ---------------- *)
\* s, ordered hardest first, with h placed after the records at least as hard
RECURSIVE InsertSorted(_, _)
InsertSorted(s, h) ==
  IF s = <<>> THEN <<h>>
  ELSE IF s[1] >= h THEN <<s[1]>> \o InsertSorted(Tail(s), h)
  ELSE <<h>> \o s

Front(s) == SubSeq(s, 1, Len(s) - 1)

InsertAlwaysEvict(s, h, cap) ==
  IF Len(s) < cap THEN InsertSorted(s, h)
  ELSE InsertSorted(Front(s), h)

\* below capacity insert unconditionally; at capacity insert only if h
\* exceeds the smallest retained hardness, evicting that entry
Insert(s, h, cap) ==
  IF Len(s) < cap THEN InsertSorted(s, h)
  ELSE IF h > s[Len(s)] THEN InsertSorted(Front(s), h)
  ELSE s

RECURSIVE TotalLen(_, _)
TotalLen(f, S) ==
  IF S = {} THEN 0
  ELSE LET c == CHOOSE x \in S : TRUE
       IN Len(f[c]) + TotalLen(f, S \ {c})

\* SampleNegatives for a batch holding one triplet of class c, hardness h
SampleNegatives(c, h) ==
  /\ s_state = "ready"
  /\ TotalLen(reported, TrainClasses) < MaxReports
  /\ hardest' = [hardest EXCEPT ![c] = Insert(@, h, capacity)]
  /\ reported' = [reported EXCEPT ![c] = Append(@, h)]
  /\ UNCHANGED <<batch_size, capacity, s_state>>

SamplerReport ==
  /\ \E c \in TrainClasses, h \in 1..MaxHardness : SampleNegatives(c, h)
  /\ UNCHANGED <<meterVars, accVars, mainVars>>

\* Reset(): clears all per-class collections
SamplerReset ==
  /\ s_state = "ready"
  /\ hardest' = EmptyCollections
  /\ reported' = EmptyCollections
  /\ UNCHANGED <<batch_size, capacity, s_state>>
  /\ UNCHANGED <<meterVars, accVars, mainVars>>

(* -------------------------------- main -------------------------------- *)
\* no file on disk
NoFile == [epoch |-> 0, best_prec1 |-> -1]

Max(a, b) == IF a >= b THEN a ELSE b

\* SampleNegatives adds a batch's report to the sampler's state
SamplerAdd(s, report) == s \cup {report}

\* Reset() leaves the sampler's state empty
SamplerCleared == {}

MainInit ==
  /\ epochs \in 0..MaxEpochs
  /\ val_freq \in 1..MaxFreq
  /\ triplet_freq \in 1..MaxFreq
  /\ n_batches \in 1..MaxBatches
  /\ n_val_batches \in 1..MaxValBatches
  /\ epoch = 0 /\ pc = "loop" /\ batch_idx = 0
  /\ best_acc = InitialBestAcc /\ acc = 0 /\ is_best = FALSE
  /\ checkpoint = NoFile /\ model_best = NoFile
  /\ sampler = SamplerCleared /\ regen_seen = {}
  /\ epochLog = <<>> /\ batchLog = <<>> /\ trained = <<>>
  /\ accs_seen = {} /\ n_reports = 0 /\ n_saves = 0 /\ n_vals = 0
  /\ prev_best = InitialBestAcc

MainIdle ==
  /\ epochs = 0 /\ val_freq = 1 /\ triplet_freq = 1
  /\ n_batches = 1 /\ n_val_batches = 1
  /\ epoch = 0 /\ pc = "idle" /\ batch_idx = 0
  /\ best_acc = InitialBestAcc /\ acc = 0 /\ is_best = FALSE
  /\ checkpoint = NoFile /\ model_best = NoFile
  /\ sampler = SamplerCleared /\ regen_seen = {}
  /\ epochLog = <<>> /\ batchLog = <<>> /\ trained = <<>>
  /\ accs_seen = {} /\ n_reports = 0 /\ n_saves = 0 /\ n_vals = 0
  /\ prev_best = InitialBestAcc

Others == <<meterVars, accVars, samplerVars>>

HasNextEpochShort(e) == e + 1 < epochs

\* for epoch in range(1, args.epochs + 1): another iteration after epoch e
HasNextEpoch(e) == e < epochs

ShouldValidateAlways(e) == TRUE

\* if epoch % args.val_freq == 0
ShouldValidate(e) == e % val_freq = 0

\* if epoch % args.triplet_freq == 0
ShouldRegenerate(e) == e % triplet_freq = 0

\* the for statement takes the next epoch and calls Train, which builds its
\* meters and enters its batch loop
LoopNext ==
  /\ pc = "loop" /\ HasNextEpoch(epoch)
  /\ epoch' = epoch + 1
  /\ pc' = "train" /\ batch_idx' = 0
  /\ trained' = Append(trained, epoch')
  /\ epochLog' = <<>> /\ batchLog' = <<>>
  /\ UNCHANGED <<argVars, ckptVars, mainSamplerVars, accs_seen, n_reports,
                 n_saves, n_vals, prev_best, Others>>

\* the for statement is exhausted: main returns
LoopExit ==
  /\ pc = "loop" /\ ~HasNextEpoch(epoch)
  /\ pc' = "done"
  /\ UNCHANGED <<argVars, epoch, batch_idx, ckptVars, mainSamplerVars,
                 histVars, Others>>

\* Train's loop takes the next batch of train_loader
TrainNextBatch ==
  /\ pc = "train" /\ batch_idx < n_batches
  /\ pc' = "forward"
  /\ batchLog' = <<>>
  /\ UNCHANGED <<argVars, epoch, batch_idx, ckptVars, mainSamplerVars,
                 epochLog, trained, accs_seen, n_reports, n_saves, n_vals,
                 prev_best, Others>>

\* tnet(data1, data2, data3) and criterion(dista, distb, target)
TrainForward ==
  /\ pc = "forward"
  /\ batchLog' = Append(batchLog, "forward")
  /\ pc' = "report"
  /\ UNCHANGED <<argVars, epoch, batch_idx, ckptVars, mainSamplerVars,
                 epochLog, trained, accs_seen, n_reports, n_saves, n_vals,
                 prev_best, Others>>

\* sampler.SampleNegatives(dista, distb, loss_triplet, (idx1, idx2, idx3))
TrainReport ==
  /\ pc = "report"
  /\ sampler' = SamplerAdd(sampler, <<epoch, batch_idx>>)
  /\ n_reports' = n_reports + 1
  /\ batchLog' = Append(batchLog, "report")
  /\ pc' = "trackers"
  /\ UNCHANGED <<argVars, epoch, batch_idx, ckptVars, regen_seen,
                 epochLog, trained, accs_seen, n_saves, n_vals, prev_best, Others>>

\* LossAccuracy, losses.update, loss_accs.update, emb_norms.update
TrainTrackers ==
  /\ pc = "trackers"
  /\ batchLog' = Append(batchLog, "trackers")
  /\ pc' = "backward"
  /\ UNCHANGED <<argVars, epoch, batch_idx, ckptVars, mainSamplerVars,
                 epochLog, trained, accs_seen, n_reports, n_saves, n_vals,
                 prev_best, Others>>

\* optimizer.zero_grad(); loss.backward(); optimizer.step()
TrainBackward ==
  /\ pc = "backward"
  /\ batchLog' = Append(batchLog, "backward")
  /\ pc' = "log"
  /\ UNCHANGED <<argVars, epoch, batch_idx, ckptVars, mainSamplerVars,
                 epochLog, trained, accs_seen, n_reports, n_saves, n_vals,
                 prev_best, Others>>

\* if batch_idx % args.log_interval == 0: print(...); then the loop goes on
TrainLog ==
  /\ pc = "log"
  /\ batchLog' = IF batch_idx % LogInterval = 0
                  THEN Append(batchLog, "log") ELSE batchLog
  /\ batch_idx' = batch_idx + 1
  /\ pc' = "train"
  /\ UNCHANGED <<argVars, epoch, ckptVars, mainSamplerVars,
                 epochLog, trained, accs_seen, n_reports, n_saves, n_vals,
                 prev_best, Others>>

\* train_loader is exhausted: Train returns
TrainReturn ==
  /\ pc = "train" /\ batch_idx = n_batches
  /\ epochLog' = Append(epochLog, "train")
  /\ pc' = "val_check"
  /\ UNCHANGED <<argVars, epoch, batch_idx, ckptVars, mainSamplerVars,
                 batchLog, trained, accs_seen, n_reports, n_saves, n_vals,
                 prev_best, Others>>

\* if epoch % args.val_freq == 0: TestTriplets is entered, or skipped
ValCheck ==
  /\ pc = "val_check"
  /\ IF ShouldValidate(epoch)
     THEN pc' = "validate" /\ batch_idx' = 0
     ELSE pc' = "regen_check" /\ batch_idx' = batch_idx
  /\ UNCHANGED <<argVars, epoch, ckptVars, mainSamplerVars, histVars, Others>>

ValBatchReporting ==
  /\ pc = "validate" /\ batch_idx < n_val_batches
  /\ batch_idx' = batch_idx + 1
  /\ sampler' = SamplerAdd(sampler, <<epoch, batch_idx>>)
  /\ n_reports' = n_reports + 1
  /\ UNCHANGED <<argVars, epoch, pc, ckptVars, regen_seen, epochLog,
                 batchLog, trained, accs_seen, n_saves, n_vals, prev_best, Others>>

\* one batch of TestTriplets: forward, loss, LossAccuracy, meter updates
ValBatch ==
  /\ pc = "validate" /\ batch_idx < n_val_batches
  /\ batch_idx' = batch_idx + 1
  /\ UNCHANGED <<argVars, epoch, pc, ckptVars, mainSamplerVars, histVars,
                 Others>>

\* test_loader is exhausted: TestTriplets returns accs.avg, here a / MaxAcc
ValReturn ==
  /\ pc = "validate" /\ batch_idx = n_val_batches
  /\ \E a \in 0..MaxAcc :
       /\ acc' = a
       /\ accs_seen' = accs_seen \cup {a}
  /\ n_vals' = n_vals + 1
  /\ epochLog' = Append(epochLog, "validate")
  /\ pc' = "remember"
  /\ UNCHANGED <<argVars, epoch, batch_idx, best_acc, is_best, checkpoint,
                 model_best, mainSamplerVars, batchLog, trained, n_reports,
                 n_saves, prev_best, Others>>

SaveCheckpointOnlyBest(state, isb) ==
  /\ checkpoint' = IF isb THEN state ELSE checkpoint
  /\ model_best' = IF isb THEN state ELSE model_best
  /\ n_saves' = IF isb THEN n_saves + 1 ELSE n_saves

\* torch.save(state, filename); if is_best: shutil.copyfile(...)
SaveCheckpoint(state, isb) ==
  /\ checkpoint' = state
  /\ model_best' = IF isb THEN state ELSE model_best
  /\ n_saves' = n_saves + 1

\* is_best = acc > best_acc; best_acc = max(acc, best_acc); SaveCheckpoint
RememberBest ==
  /\ pc = "remember"
  /\ is_best' = (acc > best_acc)
  /\ best_acc' = Max(acc, best_acc)
  /\ prev_best' = best_acc
  /\ SaveCheckpoint([epoch |-> epoch + 1, best_prec1 |-> best_acc'], is_best')
  /\ pc' = "regen_check"
  /\ UNCHANGED <<argVars, epoch, batch_idx, acc, mainSamplerVars, epochLog,
                 batchLog, trained, accs_seen, n_reports, n_vals, Others>>

\* if epoch % args.triplet_freq == 0: regeneration is entered, or skipped
RegenCheck ==
  /\ pc = "regen_check"
  /\ IF ShouldRegenerate(epoch) THEN pc' = "regenerate" ELSE pc' = "loop"
  /\ UNCHANGED <<argVars, epoch, batch_idx, ckptVars, mainSamplerVars,
                 histVars, Others>>

RegenerateAfterReset ==
  /\ pc = "regenerate"
  /\ regen_seen' = SamplerCleared
  /\ epochLog' = Append(epochLog, "regenerate")
  /\ pc' = "reset"
  /\ UNCHANGED <<argVars, epoch, batch_idx, ckptVars, sampler, batchLog,
                 trained, accs_seen, n_reports, n_saves, n_vals, prev_best, Others>>

\* train_data_set.regenerate_triplet_list(sampler, hard_frac)
Regenerate ==
  /\ pc = "regenerate"
  /\ regen_seen' = sampler
  /\ epochLog' = Append(epochLog, "regenerate")
  /\ pc' = "reset"
  /\ UNCHANGED <<argVars, epoch, batch_idx, ckptVars, sampler, batchLog,
                 trained, accs_seen, n_reports, n_saves, n_vals, prev_best, Others>>

\* sampler.Reset()
Reset ==
  /\ pc = "reset"
  /\ sampler' = SamplerCleared
  /\ epochLog' = Append(epochLog, "reset")
  /\ pc' = "loop"
  /\ UNCHANGED <<argVars, epoch, batch_idx, ckptVars, regen_seen, batchLog,
                 trained, accs_seen, n_reports, n_saves, n_vals, prev_best, Others>>

(* --------------------------- specifications --------------------------- *)
Init == MainInit /\ MeterInit /\ AccIdle /\ SamplerIdle

Next ==
  \/ LoopNext \/ LoopExit
  \/ TrainNextBatch \/ TrainForward \/ TrainReport \/ TrainTrackers
  \/ TrainBackward \/ TrainLog \/ TrainReturn
  \/ ValCheck \/ ValBatch \/ ValReturn \/ RememberBest
  \/ RegenCheck \/ Regenerate \/ Reset

\* main and the functions it calls
Spec == Init /\ [][Next]_vars

\* main runs on one thread and every call it makes returns: a step that can
\* be taken is taken
FairSpec == Init /\ [][Next]_vars /\ WF_vars(Next)

InitMeter == MeterInit /\ AccIdle /\ SamplerIdle /\ MainIdle

NextMeter == MeterReset \/ MeterUpdate \/ MeterRead

\* one AverageMeter under any sequence of reset, update and reads of .avg
SpecMeter == InitMeter /\ [][NextMeter]_vars

InitAcc == AccInit /\ MeterInit /\ SamplerIdle /\ MainIdle

NextAcc == AccEvaluate

\* LossAccuracy applied to any batch of paired distances
SpecAcc == InitAcc /\ [][NextAcc]_vars

InitSampler == SamplerInit /\ MeterInit /\ AccIdle /\ MainIdle

NextSampler == Construct \/ SamplerReport \/ SamplerReset

\* the sampler, constructed as main constructs it, under any sequence of
\* SampleNegatives and Reset
SpecSampler == InitSampler /\ [][NextSampler]_vars

(* ------------------------- claims: AverageMeter ------------------------ *)
\* the index of the last reset in c (0 if none)
LastResetAt(c) ==
  LET R == {i \in 1..Len(c) : c[i][1] = "reset"}
  IN IF R = {} THEN 0 ELSE CHOOSE i \in R : \A j \in R : j <= i

\* the updates made since the most recent reset (or construction)
SinceReset(c) == SubSeq(c, LastResetAt(c) + 1, Len(c))

RECURSIVE SumVW(_)
SumVW(u) == IF u = <<>> THEN 0 ELSE u[1][2] * u[1][3] + SumVW(Tail(u))

RECURSIVE SumW(_)
SumW(u) == IF u = <<>> THEN 0 ELSE u[1][3] + SumW(Tail(u))

\* C1: after any sequence of reset and update calls ending with at least one
\* update since the most recent reset, avg is the sum of value*weight over the
\* sum of weights of exactly the updates since that reset, and val is the
\* last update's value; a reset followed by one update(v) gives avg = v.
C1_AvgIsWeightedMean ==
  LET u == SinceReset(calls)
  IN Len(u) > 0 =>
       /\ avg.den > 0
       /\ avg.num * SumW(u) = avg.den * SumVW(u)
       /\ val = u[Len(u)][2]
       /\ (Len(u) = 1 => avg = Rat(u[1][2]))

\* an update of another value follows a reset that discarded an update
C1_Witness ==
  /\ Len(calls) = 3
  /\ calls[1][1] = "update" /\ calls[1][2] = 2
  /\ calls[2][1] = "reset"
  /\ calls[3][1] = "update" /\ calls[3][2] = 1
  /\ avg = Rat(1)

\* C7 as stated: a read of the average before any update (count = 0) fails
\* with DivisionUndefined instead of returning a value; after at least one
\* update it never fails.
C7_ReadBeforeUpdateFails ==
  q.status # "none" =>
    IF q.count = 0 THEN q.status = "DivisionUndefined" ELSE q.status = "value"

\* C7 amended: a read of the average never fails; before any update since
\* construction or the last reset it returns 0, and after at least one
\* update it returns the weighted mean.
C7_ReadNeverFails ==
  LET u == SinceReset(calls)
  IN q.status # "none" =>
       /\ q.status = "value"
       /\ q.count = SumW(u)
       /\ (Len(u) = 0 => q.value = Rat(0))
       /\ (Len(u) > 0 => q.value.num * SumW(u) = q.value.den * SumVW(u))

\* the average is read right after a reset that followed an update
C7_Witness ==
  /\ q.status = "value" /\ q.count = 0
  /\ Len(calls) = 2 /\ calls[1][1] = "update" /\ calls[1][2] > 0
  /\ calls[2][1] = "reset"

(* ------------------------- claims: LossAccuracy ------------------------ *)
Positions == 1..Len(dista)

\* C2: LossAccuracy returns the number of positions i with
\* dista[i] - distb[i] - margin > 0 over the batch size: it lies in [0,1], is
\* 1 when every dista[i] > distb[i] + margin and 0 when every
\* dista[i] <= distb[i] + margin (a tie counts as incorrect).
C2_LossAccuracyIsFraction ==
  LET correct == {i \in Positions : dista[i] > distb[i] + Margin}
  IN loss_acc # NoResult =>
       /\ loss_acc.den > 0
       /\ loss_acc.num * Len(dista) = loss_acc.den * Cardinality(correct)
       /\ 0 <= loss_acc.num /\ loss_acc.num <= loss_acc.den
       /\ (correct = Positions => loss_acc = Rat(1))
       /\ (correct = {} => loss_acc = Rat(0))

\* a batch with one correct pair, one tie and one reversed pair gives 1/3
C2_Witness ==
  /\ loss_acc = [num |-> 1, den |-> 3]
  /\ \E i \in Positions : dista[i] = distb[i] + Margin
  /\ \E i \in Positions : dista[i] < distb[i] + Margin

(* --------------------- claims: sampler construction -------------------- *)
\* C6 as stated: the capacity the sampler is constructed with is
\* round((hard_frac + hard_frac/2) * batch_size) = round(3/4 * batch_size),
\* hence positive for every batch_size >= 1, and construction never hits
\* the non-positive-capacity ConfigurationError.
C6_CapacityIsRounded ==
  s_state # "new" =>
    /\ capacity = (6 * batch_size + 4) \div 8
    /\ capacity > 0
    /\ s_state # "ConfigurationError"

\* C6 amended: the capacity is int((hard_frac + hard_frac/2) * batch_size),
\* 3/4 * batch_size truncated; it is positive exactly for batch_size >= 2,
\* and is 0 for batch_size = 1.
C6_CapacityIsTruncated ==
  s_state # "new" =>
    /\ 4 * capacity <= 3 * batch_size
    /\ 3 * batch_size < 4 * (capacity + 1)
    /\ (capacity > 0 <=> batch_size >= 2)
    /\ (batch_size = 1 => capacity = 0)

\* the sampler is constructed for batch size 1, with capacity 0
C6_Witness ==
  /\ s_state # "new" /\ batch_size = 1 /\ capacity = 0

(* ---------------------- claims: sampler collections -------------------- *)
CountEq(s, h) == Cardinality({i \in 1..Len(s) : s[i] = h})

CountGt(s, h) == Cardinality({i \in 1..Len(s) : s[i] > h})

Min(a, b) == IF a <= b THEN a ELSE b

\* C8: after any sequence of SampleNegatives and Reset calls every class's
\* collection holds at most capacity records, which are the capacity
\* highest hardness values reported for the class since the last Reset (all
\* of them if fewer were reported), hardest first.
C8_TopCapacityKept ==
  s_state = "ready" =>
    \A c \in TrainClasses :
      /\ Len(hardest[c]) <= capacity
      /\ Len(hardest[c]) = Min(capacity, Len(reported[c]))
      /\ \A i \in 1..(Len(hardest[c]) - 1) : hardest[c][i] >= hardest[c][i + 1]
      /\ \A h \in 1..MaxHardness :
           CountEq(hardest[c], h) =
             Min(CountEq(reported[c], h),
                 Max(0, capacity - CountGt(reported[c], h)))

\* capacity + 1 reports of strictly increasing hardness for one class: the
\* first, least hard, one has been evicted
C8_Witness ==
  /\ s_state = "ready"
  /\ \E c \in TrainClasses :
       /\ Len(reported[c]) = capacity + 1
       /\ \A i \in 1..capacity : reported[c][i] < reported[c][i + 1]
       /\ Len(hardest[c]) = capacity
       /\ hardest[c][capacity] = reported[c][2]

(* ---------------------------- claims: main ----------------------------- *)
IsPrefix(s, t) == Len(s) <= Len(t) /\ s = SubSeq(t, 1, Len(s))

InTrain == pc \in {"train", "forward", "report", "trackers", "backward", "log"}

\* the steps of epoch e, by the two guards
EpochSteps(e) ==
  <<"train">>
    \o (IF e % val_freq = 0 THEN <<"validate">> ELSE <<>>)
    \o (IF e % triplet_freq = 0 THEN <<"regenerate", "reset">> ELSE <<>>)

\* C3: in every epoch e of 1..epochs the Train batch loop runs to completion
\* first, Validate then runs iff e % val_freq = 0, Regenerate and Reset then
\* run iff e % triplet_freq = 0, and only then does epoch e+1 begin; Validate
\* comes before Regenerate, and neither happens when its guard is false.
C3_EpochStateMachine ==
  /\ epoch \in 0..epochs
  /\ epoch >= 1 =>
       /\ IsPrefix(epochLog, EpochSteps(epoch))
       /\ (InTrain <=> epochLog = <<>>)
       /\ (pc = "val_check" => batch_idx = n_batches)
       /\ (pc \in {"validate", "remember"} => epoch % val_freq = 0)
       /\ (pc \in {"regenerate", "reset"} => epoch % triplet_freq = 0)
       /\ (pc \in {"loop", "done"} => epochLog = EpochSteps(epoch))

\* epoch 2 ends having validated and then regenerated, after an epoch 1 in
\* which neither guard held
C3_Witness ==
  /\ pc = "loop" /\ epoch = 2 /\ val_freq = 2 /\ triplet_freq = 2
  /\ epochLog = <<"train", "validate", "regenerate", "reset">>

\* C4: for any epochs >= 0 and positive val_freq and triplet_freq main
\* reaches its terminal state after exactly epochs Train passes, numbered
\* 1..epochs, and takes no step afterwards.
C4_Terminates ==
  /\ <>(pc = "done")
  /\ [](pc = "done" => (epoch = epochs /\ trained = [i \in 1..epochs |-> i]))
  /\ [][pc = "done" => UNCHANGED vars]_vars

\* main has returned after MaxEpochs Train passes
C4_Witness ==
  /\ pc = "done" /\ epochs = MaxEpochs /\ Len(trained) = MaxEpochs

\* the training batches whose report step has been passed
PassedReport ==
  {r \in (1..epoch) \X (0..(n_batches - 1)) :
     \/ r[1] < epoch
     \/ ~InTrain
     \/ r[2] < batch_idx
     \/ r[2] = batch_idx /\ pc \in {"trackers", "backward", "log"}}

\* the last epoch, before the current point, that ended with a Reset
LastResetEpoch ==
  IF epoch >= 1 /\ epoch % triplet_freq = 0 /\ pc \in {"loop", "done"}
  THEN epoch
  ELSE IF epoch = 0 THEN 0
  ELSE ((epoch - 1) \div triplet_freq) * triplet_freq

BatchStepsClaimed == <<"forward", "report", "backward", "trackers", "log">>

BatchSteps == <<"forward", "report", "trackers", "backward", "log">>

\* C9 as stated: within every training batch the steps are, in order, the
\* forward pass and loss, one report to the sampler, the backward pass and
\* optimizer update, the tracker updates, the periodic log.
C9_BackwardBeforeTrackers ==
  IsPrefix(batchLog, BatchStepsClaimed)

\* C9 amended: within every training batch the steps are, in order, the
\* forward pass and loss, one report to the sampler, the tracker updates,
\* the backward pass and optimizer update, the periodic log; the sampler is
\* reported to once per training batch and never during a validation pass.
C9_TrackersBeforeBackward ==
  /\ IsPrefix(batchLog, BatchSteps)
  /\ (pc = "train" /\ batch_idx > 0) =>
       batchLog = SubSeq(BatchSteps, 1,
                         IF (batch_idx - 1) % LogInterval = 0 THEN 5 ELSE 4)
  /\ n_reports = Cardinality(PassedReport)
  /\ sampler \subseteq PassedReport

\* the second batch of an epoch is complete, without a log line
C9_Witness ==
  /\ pc = "train" /\ batch_idx = 2
  /\ batchLog = <<"forward", "report", "trackers", "backward">>
  /\ n_vals > 0

RECURSIVE SetMax(_)
SetMax(S) ==
  LET x == CHOOSE y \in S : TRUE
  IN IF S = {x} THEN x ELSE Max(x, SetMax(S \ {x}))

\* a validation cycle of this epoch is over, checkpoint step included
AfterSave == pc \in {"regen_check", "regenerate", "reset", "loop"}
               /\ Len(epochLog) >= 2 /\ epochLog[2] = "validate"

\* C10 as stated: a checkpoint is persisted in a validation cycle exactly
\* when that cycle's accuracy strictly exceeds the best accuracy seen so
\* far (initially 0); a cycle without improvement persists nothing.
C10_SavedOnlyOnImprovement ==
  AfterSave => (checkpoint.epoch = epoch + 1 <=> acc > prev_best)

\* C10 amended: every validation cycle persists a checkpoint holding the
\* next epoch number and the best accuracy so far; the copy to the best-model
\* file is made exactly when the cycle's accuracy strictly exceeds the best
\* accuracy seen before it (initially 0); the recorded best accuracy is the
\* maximum validation accuracy observed so far and never decreases.
C10_SavedEveryValidation ==
  /\ prev_best <= best_acc
  /\ pc # "remember" =>
       /\ n_saves = n_vals
       /\ best_acc = SetMax(accs_seen \cup {InitialBestAcc})
       /\ (checkpoint # NoFile => checkpoint.best_prec1 = best_acc)
       /\ (model_best # NoFile => model_best.best_prec1 = best_acc)
       /\ (model_best = NoFile <=> best_acc = InitialBestAcc)
       /\ (n_vals > 0 => checkpoint # NoFile)
  /\ AfterSave =>
       /\ checkpoint = [epoch |-> epoch + 1, best_prec1 |-> best_acc]
       /\ (is_best <=> acc > prev_best)
       /\ (model_best = checkpoint <=> is_best)

\* a validation cycle without improvement has written the checkpoint and
\* left the best-model file of an earlier cycle alone
C10_Witness ==
  /\ AfterSave /\ ~is_best /\ acc < best_acc
  /\ checkpoint.epoch = epoch + 1
  /\ model_best # NoFile /\ model_best.epoch < checkpoint.epoch

=============================================================================
